---- MODULE Spec2Model ----
(***************************************************************************)
(* Model of the Shopify MCP server (src/mcp_shopify_server.js): the        *)
(* startup check, the optional file watcher, the two upload endpoints and  *)
(* the remote Admin API they call; and of the storefront scripts: the      *)
(* theme's PubSub (pubsub.js), its service worker (sw.js) and the 3D       *)
(* scroll viewer (product-3d-scroll.js).                                   *)
(***************************************************************************)
EXTENDS Integers, Sequences, FiniteSets, TLC

\* ------------------------------------------------------------------ bounds
\* External events of one run: HTTP requests sent to the server plus
\* file-system operations (writes, removals) on the watched files.
MaxEvents == 2

\* Calls of PubSub.subscribe in one run.
MaxSubs == 3

\* User inputs on the page of the 3D viewer in one run: scrolls, resizes and
\* pointer events.
MaxInputs == 4

\* Fetch events the service worker handles in one run.
MaxFetches == 2

\* ------------------------------------------------------------- JS values
Undefined == "undefined"

JsUndefined == [type |-> "undefined", val |-> <<>>]
JsString(s) == [type |-> "string", val |-> s]
JsArray(a) == [type |-> "array", val |-> a]

\* JavaScript truthiness of a value of the request body.
Truthy(x) == /\ x.type /= "undefined"
             /\ ~(x.type = "string" /\ x.val = <<>>)

IsArray(x) == x.type = "array"

\* ---------------------------------------------------------------- codecs
RECURSIVE Flatten(_)
Flatten(ss) == IF ss = <<>> THEN <<>> ELSE Head(ss) \o Flatten(Tail(ss))

RECURSIVE Pow2(_)
Pow2(n) == IF n = 0 THEN 1 ELSE 2 * Pow2(n - 1)

\* The w bits of n, most significant first.
Bits(n, w) == [i \in 1..w |-> (n \div Pow2(w - i)) % 2]

RECURSIVE FromBits(_)
FromBits(bs) ==
  IF bs = <<>> THEN 0 ELSE 2 * FromBits(SubSeq(bs, 1, Len(bs) - 1)) + bs[Len(bs)]

B64Chars ==
  << "A","B","C","D","E","F","G","H","I","J","K","L","M","N","O","P",
     "Q","R","S","T","U","V","W","X","Y","Z","a","b","c","d","e","f",
     "g","h","i","j","k","l","m","n","o","p","q","r","s","t","u","v",
     "w","x","y","z","0","1","2","3","4","5","6","7","8","9","+","/" >>

IsB64Char(c) == \E i \in 1..Len(B64Chars) : B64Chars[i] = c

B64Val(c) == (CHOOSE i \in 1..Len(B64Chars) : B64Chars[i] = c) - 1

RECURSIVE BeforePad(_)
BeforePad(s) ==
  IF s = <<>> \/ Head(s) = "=" THEN <<>> ELSE <<Head(s)>> \o BeforePad(Tail(s))

\* Buffer.from(s, 'base64'): lenient. Characters outside the alphabet are
\* skipped, decoding stops at the padding, left-over bits are dropped. It
\* never throws on a string.
B64Decode(s) ==
  LET digits == SelectSeq(BeforePad(s), IsB64Char)
      bits == Flatten([i \in 1..Len(digits) |-> Bits(B64Val(digits[i]), 6)])
      n == Len(bits) \div 8
  IN [i \in 1..n |-> FromBits(SubSeq(bits, 8 * (i - 1) + 1, 8 * i))]

\* buffer.toString('base64'): 3 bytes -> 4 characters, '=' padded.
B64Encode(bytes) ==
  LET bits == Flatten([i \in 1..Len(bytes) |-> Bits(bytes[i], 8)])
      fill == (6 - (Len(bits) % 6)) % 6
      full == bits \o [i \in 1..fill |-> 0]
      n == Len(full) \div 6
      digits == [i \in 1..n |-> B64Chars[FromBits(SubSeq(full, 6 * (i - 1) + 1, 6 * i)) + 1]]
      pad == (4 - (n % 4)) % 4
  IN digits \o [i \in 1..pad |-> "="]

\* fs.readFileSync(path, 'utf8') on single-byte content: an ASCII byte is its
\* code point, a byte that is no valid UTF-8 becomes U+FFFD.
ReadUtf8(bytes) == [i \in 1..Len(bytes) |-> IF bytes[i] < 128 THEN bytes[i] ELSE 65533]

\* Buffer.from(string): the UTF-8 encoding of the code points.
Utf8Encode(str) ==
  Flatten([i \in 1..Len(str) |-> IF str[i] < 128 THEN <<str[i]>> ELSE <<239, 191, 189>>])

\* ------------------------------------------------------------ environment
\* Values process.env can give the four variables the server reads.
Envs ==
  [ SHOPIFY_STORE : {"myshop", Undefined},
    SHOPIFY_ACCESS_TOKEN : {"shpat", Undefined},
    THEME_ID : {"42", Undefined},
    WATCH_FILES : {"true", Undefined} ]

\* Themes that exist in the store.
ThemeIds == {"42", "77"}

\* The themeId of a request body: a theme of the store, or none.
ThemeIdInputs == ThemeIds \cup {Undefined}

\* The themeId of the body of an /upload-frames request.
FramesThemeIdInputs == {"42", Undefined}

\* Contents (bytes) the watched files take on disk.
FileContents == {<<97>>, <<98>>}
InitialContent == <<97>>

\* Frames a client sends: each content is a base64 string, a string that is
\* not base64, or is left out.
FrameA == [name |-> "frame1.jpg", content |-> JsString(<<"Q", "Q", "=", "=">>)]
FrameB == [name |-> "frame2.jpg", content |-> JsString(<<"Q", "g", "=", "=">>)]
FrameC == [name |-> "frame3.jpg", content |-> JsString(<<"Q", "w", "=", "=">>)]
FrameNotB64 == [name |-> "frame2.jpg", content |-> JsString(<<"!", "Q", "*", "g">>)]
FrameNoContent == [name |-> "frame2.jpg", content |-> JsUndefined]

FramesInputs ==
  { JsUndefined,
    JsString(<<"x">>),
    JsArray(<<>>),
    JsArray(<<FrameA, FrameB, FrameC>>),
    JsArray(<<FrameNotB64>>),
    JsArray(<<FrameA, FrameNoContent, FrameC>>) }

\* ------------------------------------------------------------------ state
VARIABLES
  env,        \* process.env, read once at startup
  proc,       \* "init", "running", "exited" (process.exit(1)) or "crashed"
  listening,  \* app.listen has been called
  watching,   \* the chokidar watcher has its 'change' listener
  disk,       \* each watched file: whether it exists, and its bytes
  pending,    \* 'change' events emitted by the watcher, not yet handled
  handlers,   \* one record per run of the 'change' listener
  reqs,       \* the HTTP requests and the position of their handlers
  remote,     \* themeId -> (asset key -> attachment stored by the Admin API)
  changes,    \* number of file-system operations so far
  emitted,    \* number of 'change' events the watcher has emitted so far
  burst,      \* per file: writes and watcher uploads in the current window
  events,     \* PubSub: event name -> its array of callbacks
  unsubs,     \* PubSub: the unsubscribe functions subscribe has returned
  last,       \* PubSub: the latest call of the API and what it did
  frameCount,   \* viewer: parseInt(container.dataset.frameCount, 10)
  enableTouch,  \* viewer: window.product3dTouch<sectionId> is defined
  wrapper,      \* viewer: offsetTop and offsetHeight of the wrapper element
  win,          \* viewer: window.scrollY and window.innerHeight
  preloaded,    \* viewer: the indices of the frames array that hold a URL
  img,          \* viewer: the number in the file name of img.src
  currentFrame, \* viewer: the closure variable currentFrame
  raf,          \* viewer: rafThrottle's closure variable (0 is null)
  rafQueue,     \* viewer: the browser's list of animation frame callbacks
  drag,         \* viewer: the closure variables dragging and lastX
  inputs,       \* viewer: number of user inputs so far
  throttle,     \* viewer: calls of handleScroll and runs of updateFrame
  cache,        \* service worker: the request URLs of the cache, oldest first
  fetchEvents,  \* service worker: the fetch events and how far each has got
  pendingForms, \* service worker: the 'pendingForms' object store
  sync          \* service worker: the runs of syncFormData

serverVars == <<env, proc, listening, watching, disk, pending, handlers, reqs,
                remote, changes, emitted, burst>>

busVars == <<events, unsubs, last>>

pageVars == <<frameCount, enableTouch, wrapper, win, preloaded, img, currentFrame,
              raf, rafQueue, drag, inputs, throttle>>

swVars == <<cache, fetchEvents, pendingForms, sync>>

\* The variables of the storefront scripts, which the server never touches.
otherVars == <<busVars, pageVars, swVars>>

vars == <<serverVars, otherVars>>

\* Identities of the HTTP requests of a run.
ReqIds == 1..MaxEvents

\* Requests sent so far.
Arrived == Cardinality({r \in ReqIds : reqs[r].pc /= "new"})

\* --------------------------------------------------------- fixed bundle
WatchFiles ==
  << "product-3d-scroll.liquid", "product-3d-scroll.css", "product-3d-scroll.js" >>

Files == {WatchFiles[i] : i \in 1..Len(WatchFiles)}

\* A key map that sends the stylesheet to the key of the script.
KeyMapCollide(fileName) ==
  CASE fileName = "product-3d-scroll.liquid" -> <<"sections/", "product-3d-scroll.liquid">>
    [] fileName = "product-3d-scroll.css" -> <<"assets/", "product-3d-scroll.js">>
    [] fileName = "product-3d-scroll.js" -> <<"assets/", "product-3d-scroll.js">>

\* keyMap of setupWatcher: file name -> key within the theme.
KeyMap(fileName) ==
  CASE fileName = "product-3d-scroll.liquid" -> <<"sections/", "product-3d-scroll.liquid">>
    [] fileName = "product-3d-scroll.css" -> <<"assets/", "product-3d-scroll.css">>
    [] fileName = "product-3d-scroll.js" -> <<"assets/", "product-3d-scroll.js">>

\* /publish-section: the files it reads, in order, and the key of each.
PublishFiles ==
  << "product-3d-scroll.liquid", "product-3d-scroll.css", "product-3d-scroll.js" >>

\* The keys of a publish that uploads the script first and the section last.
PublishKeysReversed ==
  << <<"assets/", "product-3d-scroll.js">>,
     <<"assets/", "product-3d-scroll.css">>,
     <<"sections/", "product-3d-scroll.liquid">> >>

PublishKeys ==
  << <<"sections/", "product-3d-scroll.liquid">>,
     <<"assets/", "product-3d-scroll.css">>,
     <<"assets/", "product-3d-scroll.js">> >>

\* /upload-frames: `assets/${frame.name}`.
FrameKey(frame) == <<"assets/", frame.name>>

\* ----------------------------------------------------------- remote calls
NoCall ==
  [method |-> "none", theme |-> Undefined, key |-> <<"", "">>, attachment |-> <<>>,
   st |-> "none"]

\* Buffer.from(content): a string is UTF-8 encoded, a buffer is copied.
BufferFrom(content) ==
  IF content.type = "string" THEN Utf8Encode(content.val) ELSE content.val

\* An uploadAsset that sends DELETE instead of PUT.
UploadAssetDelete(themeId, key, content) ==
  [method |-> "DELETE", theme |-> themeId, key |-> key,
   attachment |-> B64Encode(BufferFrom(content)), st |-> "sent"]

\* uploadAsset: PUT /themes/{themeId}/assets.json with the base64 attachment.
UploadAsset(themeId, key, content) ==
  [method |-> "PUT", theme |-> themeId, key |-> key,
   attachment |-> B64Encode(BufferFrom(content)), st |-> "sent"]

\* shopifyRequest('/themes.json'): GET, no body.
ListThemes ==
  [method |-> "GET", theme |-> Undefined, key |-> <<"", "">>, attachment |-> <<>>,
   st |-> "sent"]

\* How a call of shopifyRequest ends: it returns the parsed response ("ok"),
\* or it throws ("failed": fetch rejects, or the response is not res.ok).
Outcomes == {"ok", "failed"}

\* How the call of GET /themes.json ends: 2xx with a themes array, 2xx with
\* no themes field, 401, another non-2xx status, or fetch rejects.
ThemesOutcomes == {"ok", "empty", "unauthorized", "rejected", "neterr"}

\* An error message that does not tell the failures apart.
ErrorMessageGeneric(st) == "Shopify API error"

\* err.message of the error shopifyRequest throws: for a response that is not
\* res.ok, `Shopify API error ${res.status} on ${endpoint}: ${text}`; for a
\* rejected fetch, the message of fetch's own error.
ErrorMessage(st) ==
  CASE st = "unauthorized" -> "Shopify API error 401 on /themes.json"
    [] st = "rejected" -> "Shopify API error 500 on /themes.json"
    [] st = "neterr" -> "request to /themes.json failed"
    [] OTHER -> "Shopify API error"

\* The Admin API storing an asset.
Put(assets, key, attachment) ==
  [k \in DOMAIN assets \cup {key} |-> IF k = key THEN attachment ELSE assets[k]]

\* The Admin API executing a request on the assets of a theme.
ApplyCall(assets, call) ==
  CASE call.method = "PUT" -> Put(assets, call.key, call.attachment)
    [] call.method = "DELETE" ->
         [k \in DOMAIN assets \ {call.key} |-> assets[k]]
    [] OTHER -> assets

Stored(themeId, key) ==
  /\ themeId \in DOMAIN remote
  /\ key \in DOMAIN remote[themeId]

\* ------------------------------------------------------------ local files
NoFile == [exists |-> FALSE, bytes |-> <<>>]
FileOf(bytes) == [exists |-> TRUE, bytes |-> bytes]

\* fs.readFileSync(path, 'utf8') of an existing file, as a JS string.
ReadFile(f) == JsString(ReadUtf8(disk[f].bytes))

\* ----------------------------------------------------------------- startup
\* An environment check that looks at the store only.
EnvOkStoreOnly(e) == e.SHOPIFY_STORE /= Undefined

\* The environment check: both credentials must be set.
EnvOk(e) == ~(e.SHOPIFY_STORE = Undefined \/ e.SHOPIFY_ACCESS_TOKEN = Undefined)

\* A setupWatcher that always watches.
WatchConfiguredAlways(e) == TRUE

\* setupWatcher returns early unless WATCH_FILES is 'true' and THEME_ID is set.
WatchConfigured(e) == ~(e.WATCH_FILES /= "true" \/ e.THEME_ID = Undefined)

\* The module's top level: environment check, setupWatcher(), app.listen().
Startup ==
  /\ proc = "init"
  /\ IF ~EnvOk(env)
     THEN /\ proc' = "exited"
          /\ UNCHANGED <<listening, watching>>
     ELSE /\ proc' = "running"
          /\ watching' = WatchConfigured(env)
          /\ listening' = TRUE
  /\ UNCHANGED otherVars
  /\ UNCHANGED <<env, disk, pending, handlers, reqs, remote, changes, emitted, burst>>

\* ------------------------------------------------------------ file system
NoBurst == [f \in Files |-> [writes |-> 0, uploads |-> 0]]

\* An editor or build step writes a watched file. The watcher emits 'change'
\* for a write to an existing file (a write that creates the file is an 'add');
\* it may drop the event when it has emitted one for that path just before.
FileWrite(f, c) ==
  /\ proc = "running"
  /\ changes + Arrived < MaxEvents
  /\ changes' = changes + 1
  /\ disk' = [disk EXCEPT ![f] = FileOf(c)]
  /\ \E emit \in BOOLEAN :
       /\ emit => (watching /\ disk[f].exists)
       /\ ~emit => (~(watching /\ disk[f].exists) \/ burst[f].writes > 0)
       /\ pending' = IF emit THEN Append(pending, f) ELSE pending
       /\ emitted' = IF emit THEN emitted + 1 ELSE emitted
       /\ burst' = [burst EXCEPT ![f].writes = @ + 1]
  /\ UNCHANGED otherVars
  /\ UNCHANGED <<env, proc, listening, watching, handlers, reqs, remote>>

\* A watched file is removed ('unlink' has no listener).
FileRemove(f) ==
  /\ proc = "running"
  /\ changes + Arrived < MaxEvents
  /\ disk[f].exists
  /\ changes' = changes + 1
  /\ disk' = [disk EXCEPT ![f] = NoFile]
  /\ UNCHANGED otherVars
  /\ UNCHANGED <<env, proc, listening, watching, pending, handlers, reqs, remote,
                 emitted, burst>>

\* The debounce window of the specification (about 100 ms) elapses; the events
\* emitted in it have been handled by then.
WindowElapses ==
  /\ proc = "running"
  /\ burst /= NoBurst
  /\ pending = <<>>
  /\ burst' = NoBurst
  /\ UNCHANGED otherVars
  /\ UNCHANGED <<env, proc, listening, watching, disk, pending, handlers, reqs,
                 remote, changes, emitted>>

\* ---------------------------------------------------------------- watcher
\* Runs of the listener for file f whose upload is in flight.
InFlightFor(hs, f) == {h \in 1..Len(hs) : hs[h].file = f /\ hs[h].call.st = "sent"}

\* A debouncing listener: it skips an event when a later one for the same
\* file is already waiting.
OnChangeDebounced(hs, f) ==
  IF \E j \in 2..Len(pending) : pending[j] = f
  THEN hs
  ELSE Append(hs, [file |-> f, content |-> ReadFile(f),
                   call |-> UploadAsset(env.THEME_ID, KeyMap(f), ReadFile(f)),
                   pc |-> "await", logged |-> "none",
                   inflight |-> InFlightFor(hs, f)])

\* The 'change' listener up to its first await: one run per event, which
\* reads the file as it is now and starts one upload to THEME_ID. inflight
\* records the earlier runs for the same file that are still uploading.
OnChange(hs, f) ==
  Append(hs, [file |-> f, content |-> ReadFile(f),
              call |-> UploadAsset(env.THEME_ID, KeyMap(f), ReadFile(f)),
              pc |-> "await", logged |-> "none",
              inflight |-> InFlightFor(hs, f)])

\* readFileSync throws outside the try block: the listener's promise rejects
\* and nothing handles the rejection.
OnChangeThrows(hs, f) ==
  Append(hs, [file |-> f, content |-> JsUndefined, call |-> NoCall,
              pc |-> "threw", logged |-> "none", inflight |-> {}])

\* What Node does with an unhandled rejection: by default ("throw") the
\* process ends; with --unhandled-rejections=warn it goes on.
RejectionModes == {"throw", "warn"}

HandleChange ==
  /\ proc = "running"
  /\ watching
  /\ pending /= <<>>
  /\ pending' = Tail(pending)
  /\ LET f == Head(pending) IN
       IF disk[f].exists
       THEN /\ handlers' = OnChange(handlers, f)
            /\ burst' = [burst EXCEPT ![f].uploads = @ + 1]
            /\ proc' = proc
       ELSE /\ handlers' = OnChangeThrows(handlers, f)
            /\ burst' = burst
            /\ \E mode \in RejectionModes :
                 proc' = IF mode = "throw" THEN "crashed" ELSE proc
  /\ UNCHANGED otherVars
  /\ UNCHANGED <<env, listening, watching, disk, reqs, remote, changes, emitted>>

\* The listener after its await: console.log on success, console.error in
\* the catch block.
AfterWatcherUpload(hr) ==
  [hr EXCEPT !.pc = "done",
             !.logged = IF hr.call.st = "ok" THEN "updated" ELSE "failed"]

\* The PUT of a listener's run ends: the Admin API stores the asset and
\* answers 2xx, answers non-2xx, or the call fails; the listener then resumes
\* (unless the process has ended meanwhile).
WatcherCallEnds(h, outcome) ==
  /\ h \in 1..Len(handlers)
  /\ handlers[h].call.st = "sent"
  /\ outcome = "ok" => handlers[h].call.theme \in ThemeIds
  /\ handlers' = [handlers EXCEPT ![h] =
                    IF proc = "running"
                    THEN AfterWatcherUpload([@ EXCEPT !.call.st = outcome])
                    ELSE [@ EXCEPT !.call.st = outcome]]
  /\ remote' = IF outcome = "ok"
               THEN [remote EXCEPT ![handlers[h].call.theme] =
                       ApplyCall(@, handlers[h].call)]
               ELSE remote
  /\ UNCHANGED otherVars
  /\ UNCHANGED <<env, proc, listening, watching, disk, pending, reqs, changes,
                 emitted, burst>>

\* ---------------------------------------------------------- HTTP requests
\* A request that has not been sent yet. reads, issued, outcomes, unchanged
\* and retry record what its handler did and found: readFileSync calls,
\* uploadAsset calls, the result of each upload it awaited, per bundle file
\* whether the theme already held that content when the request arrived, and
\* the bundle files whose upload had failed in the publish before this one.
NewReq ==
  [kind |-> "none", themeId |-> Undefined, frames |-> JsUndefined, pc |-> "new",
   files |-> <<>>, idx |-> 0, call |-> NoCall, resp |-> <<>>,
   reads |-> 0, issued |-> 0, outcomes |-> <<>>, unchanged |-> <<>>, retry |-> {}]

\* res.status(code).json(body)
Respond(r, code, body) ==
  [r EXCEPT !.pc = "done", !.call = NoCall,
            !.resp = Append(@, [status |-> code, body |-> body])]

\* await uploadAsset(...): the handler is suspended on its idx-th upload.
Issue(r, i, call) ==
  [r EXCEPT !.pc = "await", !.idx = i, !.call = call, !.issued = @ + 1]

\* A handler that does not check themeId.
PublishValidAlways(themeId) == TRUE

\* A server that handles one request at a time: it accepts none while a
\* remote call of another handler is pending.
AcceptsBlocking ==
  /\ listening
  /\ \A r \in ReqIds : reqs[r].call.st /= "sent"
  /\ \A h \in 1..Len(handlers) : handlers[h].call.st /= "sent"

\* The server accepts a request whenever it listens: every handler is async
\* and gives the event loop back at its await.
Accepts == listening

\* /publish-section: if (!themeId) return 400.
PublishValid(themeId) == ~(themeId = Undefined)

\* A delta publish: it skips the files the theme already holds.
RECURSIVE PublishStepDelta(_, _)
PublishStepDelta(r, i) ==
  IF i > Len(PublishKeys)
  THEN Respond(r, 200, [success |-> TRUE])
  ELSE IF r.unchanged[i]
  THEN PublishStepDelta(r, i + 1)
  ELSE Issue(r, i, UploadAsset(r.themeId, PublishKeys[i], r.files[i]))

\* /publish-section from its i-th uploadAsset on: every file of the bundle is
\* uploaded, in order, then { success: true }.
PublishStep(r, i) ==
  IF i > Len(PublishKeys)
  THEN Respond(r, 200, [success |-> TRUE])
  ELSE Issue(r, i, UploadAsset(r.themeId, PublishKeys[i], r.files[i]))

\* The three readFileSync calls: they stop at the first file that is missing.
MissingFiles == {i \in 1..Len(PublishFiles) : ~disk[PublishFiles[i]].exists}

FirstMissing == CHOOSE i \in MissingFiles : \A j \in MissingFiles : i <= j

\* Per bundle file: the theme already stores exactly what would be uploaded.
UnchangedAt(themeId) ==
  [i \in 1..Len(PublishFiles) |->
     /\ disk[PublishFiles[i]].exists
     /\ Stored(themeId, PublishKeys[i])
     /\ remote[themeId][PublishKeys[i]] =
          UploadAsset(themeId, PublishKeys[i], ReadFile(PublishFiles[i])).attachment]

\* The publish requests to a theme that have arrived, and the bundle files
\* whose upload failed in the latest of them.
PublishesTo(themeId) ==
  {o \in ReqIds : reqs[o].kind = "publish" /\ reqs[o].themeId = themeId}

FailedBefore(themeId) ==
  {i \in 1..Len(PublishFiles) :
     \E o \in PublishesTo(themeId) :
       /\ \A p \in PublishesTo(themeId) : p <= o
       /\ reqs[o].pc = "done"
       /\ Len(reqs[o].outcomes) = i
       /\ reqs[o].outcomes[i] = "failed"}

\* POST /publish-section up to its first await.
PublishArrives(q) ==
  IF ~PublishValid(q.themeId)
  THEN Respond(q, 400, [error |-> "themeId is required"])
  ELSE IF MissingFiles /= {}
  THEN Respond([q EXCEPT !.reads = FirstMissing], 500, [error |-> "ENOENT"])
  ELSE PublishStep(
         [q EXCEPT !.files = [i \in 1..Len(PublishFiles) |-> ReadFile(PublishFiles[i])],
                   !.reads = Len(PublishFiles),
                   !.unchanged = UnchangedAt(q.themeId),
                   !.retry = FailedBefore(q.themeId)], 1)

PublishSection(r, themeId) ==
  /\ proc = "running"
  /\ Accepts
  /\ reqs[r].pc = "new"
  /\ \A o \in ReqIds : o < r => reqs[o].pc /= "new"
  /\ changes + Arrived < MaxEvents
  /\ reqs' = [reqs EXCEPT ![r] =
                PublishArrives([NewReq EXCEPT !.kind = "publish", !.themeId = themeId])]
  /\ UNCHANGED otherVars
  /\ UNCHANGED <<env, proc, listening, watching, disk, pending, handlers, remote,
                 changes, emitted, burst>>

\* /upload-frames: if (!themeId || !frames || !Array.isArray(frames)) return 400.
FramesValid(themeId, frames) ==
  ~(themeId = Undefined \/ ~Truthy(frames) \/ ~IsArray(frames))

\* /upload-frames from its i-th frame on: the content is decoded from base64
\* (Buffer.from throws a TypeError when it is not a string) and uploaded.
FramesStep(r, i) ==
  IF i > Len(r.frames.val)
  THEN Respond(r, 200, [success |-> TRUE])
  ELSE IF r.frames.val[i].content.type /= "string"
  THEN Respond([r EXCEPT !.idx = i, !.outcomes = Append(@, "threw")],
               500, [error |-> "TypeError"])
  ELSE Issue(r, i, UploadAsset(r.themeId, FrameKey(r.frames.val[i]),
                               [type |-> "buffer",
                                val |-> B64Decode(r.frames.val[i].content.val)]))

\* POST /upload-frames up to its first await.
FramesArrives(q) ==
  IF ~FramesValid(q.themeId, q.frames)
  THEN Respond(q, 400, [error |-> "themeId and frames array are required"])
  ELSE FramesStep(q, 1)

UploadFrames(r, themeId, frames) ==
  /\ proc = "running"
  /\ Accepts
  /\ reqs[r].pc = "new"
  /\ \A o \in ReqIds : o < r => reqs[o].pc /= "new"
  /\ changes + Arrived < MaxEvents
  /\ reqs' = [reqs EXCEPT ![r] =
                FramesArrives([NewReq EXCEPT !.kind = "frames", !.themeId = themeId,
                                              !.frames = frames])]
  /\ UNCHANGED otherVars
  /\ UNCHANGED <<env, proc, listening, watching, disk, pending, handlers, remote,
                 changes, emitted, burst>>

\* The themes of the store as /themes.json lists them.
StoreThemes == JsArray(<<"42", "77">>)

\* res.json() of the answer to /themes.json.
ThemesData(outcome) ==
  IF outcome = "ok" THEN [themes |-> StoreThemes] ELSE [themes |-> JsUndefined]

\* A /themes handler that hides an upstream failure behind an empty list.
AfterThemesSwallow(r) ==
  IF r.call.st \in {"ok", "empty"}
  THEN Respond([r EXCEPT !.outcomes = Append(@, r.call.st)], 200,
               IF Truthy(ThemesData(r.call.st).themes)
               THEN ThemesData(r.call.st).themes ELSE JsArray(<<>>))
  ELSE Respond([r EXCEPT !.outcomes = Append(@, r.call.st)], 200, JsArray(<<>>))

\* GET /themes after its await: res.json(data.themes || []), or the catch
\* block: res.status(500).json({ error: err.message }).
AfterThemes(r) ==
  IF r.call.st \in {"ok", "empty"}
  THEN Respond([r EXCEPT !.outcomes = Append(@, r.call.st)], 200,
               IF Truthy(ThemesData(r.call.st).themes)
               THEN ThemesData(r.call.st).themes ELSE JsArray(<<>>))
  ELSE Respond([r EXCEPT !.outcomes = Append(@, r.call.st)],
               500, [error |-> ErrorMessage(r.call.st)])

\* GET /themes up to its await.
GetThemes(r) ==
  /\ proc = "running"
  /\ Accepts
  /\ reqs[r].pc = "new"
  /\ \A o \in ReqIds : o < r => reqs[o].pc /= "new"
  /\ changes + Arrived < MaxEvents
  /\ reqs' = [reqs EXCEPT ![r] = Issue([NewReq EXCEPT !.kind = "themes"], 1, ListThemes)]
  /\ UNCHANGED otherVars
  /\ UNCHANGED <<env, proc, listening, watching, disk, pending, handlers, remote,
                 changes, emitted, burst>>

\* The call of GET /themes.json ends, and the handler resumes (unless the
\* process has ended meanwhile).
ThemesCallEnds(r, outcome) ==
  /\ reqs[r].kind = "themes"
  /\ reqs[r].call.st = "sent"
  /\ reqs' = [reqs EXCEPT ![r] =
                IF proc = "running"
                THEN AfterThemes([@ EXCEPT !.call.st = outcome])
                ELSE [@ EXCEPT !.call.st = outcome]]
  /\ UNCHANGED otherVars
  /\ UNCHANGED <<env, proc, listening, watching, disk, pending, handlers, remote,
                 changes, emitted, burst>>

\* A handler that sends a failed upload again.
AfterUploadRetry(r) ==
  IF r.call.st = "ok"
  THEN IF r.kind = "publish"
       THEN PublishStep([r EXCEPT !.outcomes = Append(@, "ok"), !.call = NoCall], r.idx + 1)
       ELSE FramesStep([r EXCEPT !.outcomes = Append(@, "ok"), !.call = NoCall], r.idx + 1)
  ELSE Issue([r EXCEPT !.outcomes = Append(@, "failed")], r.idx,
             [r.call EXCEPT !.st = "sent"])

\* A handler after an await: the next upload, or the catch block, which
\* answers 500 with the error's message and ends the handler.
AfterUpload(r) ==
  IF r.call.st = "ok"
  THEN IF r.kind = "publish"
       THEN PublishStep([r EXCEPT !.outcomes = Append(@, "ok"), !.call = NoCall], r.idx + 1)
       ELSE FramesStep([r EXCEPT !.outcomes = Append(@, "ok"), !.call = NoCall], r.idx + 1)
  ELSE Respond([r EXCEPT !.outcomes = Append(@, "failed")],
               500, [error |-> ErrorMessage(r.call.st)])

\* The PUT of a request's handler ends: the Admin API stores the asset and
\* answers 2xx, answers non-2xx, or the call fails; the handler then resumes
\* (unless the process has ended meanwhile).
RequestCallEnds(r, outcome) ==
  /\ reqs[r].kind /= "themes"
  /\ reqs[r].call.st = "sent"
  /\ outcome = "ok" => reqs[r].call.theme \in ThemeIds
  /\ reqs' = [reqs EXCEPT ![r] =
                IF proc = "running"
                THEN AfterUpload([@ EXCEPT !.call.st = outcome])
                ELSE [@ EXCEPT !.call.st = outcome]]
  /\ remote' = IF outcome = "ok"
               THEN [remote EXCEPT ![reqs[r].call.theme] =
                       ApplyCall(@, reqs[r].call)]
               ELSE remote
  /\ UNCHANGED otherVars
  /\ UNCHANGED <<env, proc, listening, watching, disk, pending, handlers, changes,
                 emitted, burst>>

\* ----------------------------------------------------------------- PubSub
\* window.theme.PubSub of pubsub.js. All of its functions are synchronous:
\* each call is one step.
BusEvents == {"cart:updated", "modal:opened"}

\* The callbacks the theme's scripts subscribe: "a" returns, "t" throws,
\* "u" calls its own unsubscribe function for the event it is invoked for
\* (a once-handler) and returns.
Callbacks == {"a", "t", "u"}

Throws(cb) == cb = "t"

UnsubscribesItself(cb) == cb = "u"

\* const events = {}: no event has an array yet.
NoEvents == [e \in BusEvents |-> [defined |-> FALSE, regs |-> <<>>]]

\* No call of the API yet. For a call of publish or of an unsubscribe
\* function, last keeps the arrays as they were before the call.
NoOp ==
  [op |-> "none", event |-> "", closure |-> 0, before |-> NoEvents,
   delivered |-> <<>>, returned |-> TRUE, logged |-> 0]

\* array.indexOf(callback): the first position that holds the callback
\* (0 stands for -1). reg, the subscribe call an entry comes from, is not
\* something the code can see.
IndexOf(regs, cb) ==
  IF \E i \in 1..Len(regs) : regs[i].cb = cb
  THEN CHOOSE i \in 1..Len(regs) :
         regs[i].cb = cb /\ \A j \in 1..(i - 1) : regs[j].cb /= cb
  ELSE 0

\* array.splice(index, 1)
Splice(regs, i) == SubSeq(regs, 1, i - 1) \o SubSeq(regs, i + 1, Len(regs))

\* The function subscribe returns: it removes the first entry of
\* events[event] that is the callback.
Unsubscribe(evs, event, cb) ==
  IF IndexOf(evs[event].regs, cb) > 0
  THEN [evs EXCEPT ![event].regs = Splice(@, IndexOf(evs[event].regs, cb))]
  ELSE evs

\* A callback invoked without try/catch: what it throws escapes.
InvokeNoCatch(evs, event, cb) ==
  [evs |-> IF UnsubscribesItself(cb) THEN Unsubscribe(evs, event, cb) ELSE evs,
   escaped |-> Throws(cb),
   logged |-> 0]

\* try { callback(data) } catch (error) { console.error(...) }
Invoke(evs, event, cb) ==
  [evs |-> IF UnsubscribesItself(cb) THEN Unsubscribe(evs, event, cb) ELSE evs,
   escaped |-> FALSE,
   logged |-> IF Throws(cb) THEN 1 ELSE 0]

\* events[event].forEach(...) from index k on (k counts from 1). forEach
\* fixes the number of indices to visit, len, when it starts, and skips
\* an index the array no longer has when it gets there.
RECURSIVE ForEach(_, _, _, _, _, _)
ForEach(evs, event, k, len, delivered, logged) ==
  IF k > len
  THEN [evs |-> evs, delivered |-> delivered, returned |-> TRUE, logged |-> logged]
  ELSE IF k > Len(evs[event].regs)
  THEN ForEach(evs, event, k + 1, len, delivered, logged)
  ELSE LET reg == evs[event].regs[k]
           res == Invoke(evs, event, reg.cb)
       IN IF res.escaped
          THEN [evs |-> res.evs, delivered |-> Append(delivered, reg),
                returned |-> FALSE, logged |-> logged]
          ELSE ForEach(res.evs, event, k + 1, len, Append(delivered, reg),
                       logged + res.logged)

\* publish(event, data)
PublishTo(evs, event) ==
  IF ~evs[event].defined
  THEN [evs |-> evs, delivered |-> <<>>, returned |-> TRUE, logged |-> 0]
  ELSE ForEach(evs, event, 1, Len(evs[event].regs), <<>>, 0)

\* subscribe(event, callback): the array is created when missing, the
\* callback is pushed, and an unsubscribe function is returned.
Subscribe(e, cb) ==
  /\ Len(unsubs) < MaxSubs
  /\ events' = [events EXCEPT ![e] =
                  [defined |-> TRUE,
                   regs |-> Append(@.regs, [cb |-> cb, reg |-> Len(unsubs) + 1])]]
  /\ unsubs' = Append(unsubs, [event |-> e, cb |-> cb, used |-> FALSE])
  /\ last' = [NoOp EXCEPT !.op = "subscribe", !.event = e]
  /\ UNCHANGED <<serverVars, pageVars, swVars>>

\* A script calls the unsubscribe function that the j-th subscribe returned.
CallUnsubscribe(j) ==
  /\ j \in 1..Len(unsubs)
  /\ events' = Unsubscribe(events, unsubs[j].event, unsubs[j].cb)
  /\ unsubs' = [unsubs EXCEPT ![j].used = TRUE]
  /\ last' = [NoOp EXCEPT !.op = IF unsubs[j].used THEN "unsubscribe again"
                                 ELSE "unsubscribe",
                          !.event = unsubs[j].event, !.before = events,
                          !.closure = j]
  /\ UNCHANGED <<serverVars, pageVars, swVars>>

\* A script calls publish(event, data).
Publish(e) ==
  /\ events' = PublishTo(events, e).evs
  /\ last' = [op |-> "publish", event |-> e, closure |-> 0, before |-> events,
              delivered |-> PublishTo(events, e).delivered,
              returned |-> PublishTo(events, e).returned,
              logged |-> PublishTo(events, e).logged]
  /\ UNCHANGED unsubs
  /\ UNCHANGED <<serverVars, pageVars, swVars>>

\* clear(event): that event gets a new empty array.
Clear(e) ==
  /\ events' = [events EXCEPT ![e] = [defined |-> TRUE, regs |-> <<>>]]
  /\ last' = [NoOp EXCEPT !.op = "clear", !.event = e]
  /\ UNCHANGED unsubs
  /\ UNCHANGED <<serverVars, pageVars, swVars>>

\* clear(): every event that has an array gets a new empty one.
ClearAll ==
  /\ events' = [e \in BusEvents |-> [events[e] EXCEPT !.regs = <<>>]]
  /\ last' = [NoOp EXCEPT !.op = "clear"]
  /\ UNCHANGED unsubs
  /\ UNCHANGED <<serverVars, pageVars, swVars>>

\* The PubSub before any script has used it.
BusIdle ==
  /\ events = NoEvents
  /\ unsubs = <<>>
  /\ last = NoOp

\* ------------------------------------------------------- JS number values
\* A JavaScript number as the viewer computes with it: a rational n/d with
\* d > 0, NaN, or an infinity.
Num(n) == [k |-> "num", n |-> n, d |-> 1]
Rat(n, d) == [k |-> "num", n |-> n, d |-> d]
NaN == [k |-> "nan", n |-> 0, d |-> 1]
PosInf == [k |-> "pinf", n |-> 0, d |-> 1]
NegInf == [k |-> "ninf", n |-> 0, d |-> 1]

IsNaN(a) == a.k = "nan"

\* a / b for two integers.
JsDivide(a, b) ==
  IF b = 0 THEN (IF a = 0 THEN NaN ELSE IF a > 0 THEN PosInf ELSE NegInf)
  ELSE IF b > 0 THEN Rat(a, b) ELSE Rat(-a, -b)

\* a < b; false when either side is NaN.
JsLess(a, b) ==
  /\ ~IsNaN(a)
  /\ ~IsNaN(b)
  /\ \/ a.k = "ninf" /\ b.k /= "ninf"
     \/ b.k = "pinf" /\ a.k /= "pinf"
     \/ a.k = "num" /\ b.k = "num" /\ a.n * b.d < b.n * a.d

\* a >= b; false when either side is NaN.
JsAtLeast(a, b) == ~IsNaN(a) /\ ~IsNaN(b) /\ ~JsLess(a, b)

\* a !== b; true when either side is NaN.
JsNotEqual(a, b) == IsNaN(a) \/ IsNaN(b) \/ JsLess(a, b) \/ JsLess(b, a)

JsMin(a, b) == IF IsNaN(a) \/ IsNaN(b) THEN NaN ELSE IF JsLess(b, a) THEN b ELSE a
JsMax(a, b) == IF IsNaN(a) \/ IsNaN(b) THEN NaN ELSE IF JsLess(a, b) THEN b ELSE a

\* a * m for an integer m.
JsTimes(a, m) ==
  CASE a.k = "nan" -> NaN
    [] a.k = "num" -> Rat(a.n * m, a.d)
    [] OTHER -> IF m = 0 THEN NaN
                ELSE IF m > 0 THEN a
                ELSE IF a.k = "pinf" THEN NegInf ELSE PosInf

JsFloor(a) == IF a.k = "num" THEN Num(a.n \div a.d) ELSE a

\* a + m and a - m for an integer-valued or NaN a and an integer m.
JsPlus(a, m) == IF a.k = "num" THEN Rat(a.n + m * a.d, a.d) ELSE a
JsMinus(a, m) == JsPlus(a, -m)

\* a % m for an integer-valued or NaN a: the result has the sign of a.
JsRemainder(a, m) ==
  IF a.k /= "num" \/ m = 0 THEN NaN
  ELSE LET abs == IF m < 0 THEN -m ELSE m
       IN IF a.n >= 0 THEN Num(a.n % abs) ELSE Num(-((-a.n) % abs))

\* Math.round(a / b) for integers a and b > 0: halves round up.
JsRoundDiv(a, b) == (2 * a + b) \div (2 * b)

\* ---------------------------------------------------------------- 3D viewer
\* data-frame-count values of the section.
FrameCounts == {1, 3}

\* Heights of the wrapper element and of the window, tops of the wrapper,
\* scroll positions and pointer positions, in pixels.
WrapperHeights == {2, 6}
WrapperTops == {1}
InnerHeights == {2, 3}
ScrollYs == {0, 1, 3, 7}
ClientXs == {0, 2, 5, 18}

\* Pixels per frame of a drag.
Sensitivity == 5

\* preloadFrame(index): the frames array after the call.
PreloadFrame(fr, index, fc) ==
  IF JsLess(index, Num(0)) \/ JsAtLeast(index, Num(fc)) THEN fr
  ELSE IF index \in fr THEN fr
  ELSE fr \cup {index}

\* The index updateFrame computes from the metrics of the page.
FrameIndex(wr, w, fc) ==
  LET relative == JsDivide(w.scrollY - wr.offsetTop,
                           wr.offsetHeight - w.innerHeight)
      progress == JsMin(Num(1), JsMax(Num(0), relative))
  IN JsMax(Num(0), JsMin(Num(fc - 1), JsFloor(JsTimes(progress, fc))))

\* updateFrame(): the closure state after the call.
UpdateFrame(st, wr, w, fc) ==
  LET index == FrameIndex(wr, w, fc)
  IN IF JsNotEqual(index, st.currentFrame)
     THEN [frames |-> PreloadFrame(PreloadFrame(st.frames, index, fc),
                                   JsPlus(index, 1), fc),
           img |-> JsPlus(index, 1),
           currentFrame |-> index]
     ELSE st

\* The throttled handler without its test of raf.
ThrottledAlways(r, q, id) == [raf |-> id, queue |-> Append(q, id)]

\* The function rafThrottle returns, called while raf is r and the browser
\* holds the frame callbacks q; id is the handle requestAnimationFrame
\* returns.
Throttled(r, q, id) ==
  IF r /= 0 THEN [raf |-> r, queue |-> q]
  ELSE [raf |-> id, queue |-> Append(q, id)]

\* The handles requestAnimationFrame has returned so far are 1..throttle.bursts.
HandleScroll ==
  LET t == Throttled(raf, rafQueue, throttle.bursts + 1)
  IN /\ raf' = t.raf
     /\ rafQueue' = t.queue
     /\ throttle' = [throttle EXCEPT
                       !.calls = @ + 1,
                       !.bursts = @ + Len(t.queue) - Len(rafQueue)]

\* The user scrolls the window to y: a scroll event.
ScrollTo(y) ==
  /\ inputs < MaxInputs
  /\ y /= win.scrollY
  /\ win' = [win EXCEPT !.scrollY = y]
  /\ inputs' = inputs + 1
  /\ HandleScroll
  /\ UNCHANGED <<frameCount, enableTouch, wrapper, preloaded, img, currentFrame,
                 drag>>
  /\ UNCHANGED <<serverVars, busVars, swVars>>

\* The user resizes the window to height h: a resize event.
Resize(h) ==
  /\ inputs < MaxInputs
  /\ h /= win.innerHeight
  /\ win' = [win EXCEPT !.innerHeight = h]
  /\ inputs' = inputs + 1
  /\ HandleScroll
  /\ UNCHANGED <<frameCount, enableTouch, wrapper, preloaded, img, currentFrame,
                 drag>>
  /\ UNCHANGED <<serverVars, busVars, swVars>>

\* The closure state after the frame callbacks q have run, in order: each
\* calls updateFrame and resets raf.
RECURSIVE RunCallbacks(_, _, _, _)
RunCallbacks(q, st, w, fc) ==
  IF q = <<>> THEN st
  ELSE RunCallbacks(Tail(q), UpdateFrame(st, wrapper, w, fc), w, fc)

\* The browser renders a frame: it runs the callbacks requested since the
\* last one.
AnimationFrame ==
  /\ rafQueue /= <<>>
  /\ LET st == RunCallbacks(rafQueue,
                            [frames |-> preloaded, img |-> img,
                             currentFrame |-> currentFrame], win, frameCount)
     IN /\ preloaded' = st.frames
        /\ img' = st.img
        /\ currentFrame' = st.currentFrame
  /\ raf' = 0
  /\ rafQueue' = <<>>
  /\ throttle' = [throttle EXCEPT
                    !.calls = 0,
                    !.runs = @ + Len(rafQueue),
                    !.frame = [calls |-> throttle.calls, ran |-> Len(rafQueue)]]
  /\ UNCHANGED <<frameCount, enableTouch, wrapper, win, drag, inputs>>
  /\ UNCHANGED <<serverVars, busVars, swVars>>

\* mousedown or touchstart at x.
StartDrag(x) ==
  /\ enableTouch
  /\ inputs < MaxInputs
  /\ drag' = [dragging |-> TRUE, lastX |-> x]
  /\ inputs' = inputs + 1
  /\ UNCHANGED <<frameCount, enableTouch, wrapper, win, preloaded, img,
                 currentFrame, raf, rafQueue, throttle>>
  /\ UNCHANGED <<serverVars, busVars, swVars>>

\* mousemove or touchmove at x.
MoveDrag(x) ==
  /\ enableTouch
  /\ inputs < MaxInputs
  /\ inputs' = inputs + 1
  /\ IF ~drag.dragging
     THEN UNCHANGED <<drag, currentFrame, preloaded, img>>
     ELSE LET dx == x - drag.lastX
              delta == JsRoundDiv(dx, Sensitivity)
              moved == JsRemainder(JsMinus(currentFrame, delta), frameCount)
              next == IF JsLess(moved, Num(0)) THEN JsPlus(moved, frameCount)
                      ELSE moved
          IN /\ drag' = [drag EXCEPT !.lastX = x]
             /\ IF delta /= 0
                THEN /\ currentFrame' = next
                     /\ preloaded' = PreloadFrame(preloaded, next, frameCount)
                     /\ img' = JsPlus(next, 1)
                ELSE UNCHANGED <<currentFrame, preloaded, img>>
  /\ UNCHANGED <<frameCount, enableTouch, wrapper, win, raf, rafQueue, throttle>>
  /\ UNCHANGED <<serverVars, busVars, swVars>>

\* mouseup, mouseleave or touchend.
EndDrag ==
  /\ enableTouch
  /\ inputs < MaxInputs
  /\ drag.dragging
  /\ drag' = [drag EXCEPT !.dragging = FALSE]
  /\ inputs' = inputs + 1
  /\ UNCHANGED <<frameCount, enableTouch, wrapper, win, preloaded, img,
                 currentFrame, raf, rafQueue, throttle>>
  /\ UNCHANGED <<serverVars, busVars, swVars>>

\* The viewer of a section with fc frames after its DOMContentLoaded
\* listener has run: the first frames are preloaded and frame1 is shown.
PageLoaded(fc, touch, wr, w) ==
  /\ frameCount = fc
  /\ enableTouch = touch
  /\ wrapper = wr
  /\ win = w
  /\ preloaded = {Num(i) : i \in 0..((IF fc < 4 THEN fc ELSE 4) - 1)}
  /\ img = Num(1)
  /\ currentFrame = Num(0)
  /\ raf = 0
  /\ rafQueue = <<>>
  /\ drag = [dragging |-> FALSE, lastX |-> 0]
  /\ inputs = 0
  /\ throttle = [calls |-> 0, bursts |-> 0, runs |-> 0,
                 frame |-> [calls |-> 0, ran |-> 0]]

\* A page on which the viewer does not run.
PageIdle ==
  PageLoaded(1, FALSE, [offsetTop |-> 1, offsetHeight |-> 6],
             [scrollY |-> 0, innerHeight |-> 2])

\* ----------------------------------------------------------- service worker
\* Request URLs of the storefront, all fetched with GET over https.
Urls == {"/", "/cart", "/search", "/products.json"}

\* CACHE_CONFIG as getCacheStrategy applies it to these URLs: none ends in
\* an asset extension, "/products.json" matches the api pattern, the others
\* the pages pattern. The limits 50 and 30 are scaled down to 3 and 2 so
\* that a run can fill the cache.
GetCacheStrategy(url) ==
  IF url = "/products.json"
  THEN [name |-> "api", strategy |-> "network-first", maxEntries |-> 3]
  ELSE [name |-> "pages", strategy |-> "stale-while-revalidate",
        maxEntries |-> 2]

\* What the install handler leaves in the cache (PRECACHE_RESOURCES, scaled
\* down with the limits).
Precached == <<"/">>

\* How a fetch of the network ends: a response with status 200, a response
\* with an error status, or a rejection.
NetworkOutcomes == {"200", "500", "neterr"}

NoFetch == [pc |-> "new", url |-> "", strategy |-> "", maxEntries |-> 0,
            cached |-> FALSE, network |-> "none", reply |-> "none",
            wpc |-> "none", keys |-> <<>>, sizeAfter |-> 0]

FetchIds == 1..MaxFetches

\* cache.match(url) finds a response.
Match(c, url) == \E i \in 1..Len(c) : c[i] = url

\* The cache without the entries whose URL is in gone.
RECURSIVE Without(_, _)
Without(c, gone) ==
  IF c = <<>> THEN <<>>
  ELSE IF Head(c) \in gone THEN Without(Tail(c), gone)
  ELSE <<Head(c)>> \o Without(Tail(c), gone)

\* cache.put(url, response): an entry of the same URL is replaced.
CachePutEntry(c, url) == Append(Without(c, {url}), url)

\* keys.slice(0, keys.length - maxEntries + 1)
EntriesToRemove(keys, maxEntries) ==
  {keys[i] : i \in 1..(Len(keys) - maxEntries + 1)}

\* keys.length >= maxEntries
OverLimit(keys, maxEntries) == Len(keys) >= maxEntries

\* A page requests url: the fetch listener picks the strategy and calls
\* respondWith(handleRequest(...)). Stale-while-revalidate looks the request
\* up in the cache, starts the fetch and answers with the cached response
\* when there is one; network-first starts the fetch.
FetchEvent(f, url) ==
  /\ fetchEvents[f].pc = "new"
  /\ \A g \in FetchIds : g < f => fetchEvents[g].pc /= "new"
  /\ LET cfg == GetCacheStrategy(url)
         hit == cfg.strategy = "stale-while-revalidate" /\ Match(cache, url)
     IN fetchEvents' = [fetchEvents EXCEPT ![f] =
          [NoFetch EXCEPT !.pc = "fetching", !.url = url,
                          !.strategy = cfg.strategy,
                          !.maxEntries = cfg.maxEntries,
                          !.cached = hit,
                          !.reply = IF hit THEN "cached" ELSE "none"]]
  /\ UNCHANGED <<cache, pendingForms, sync>>
  /\ UNCHANGED <<serverVars, busVars, pageVars>>

\* What staleWhileRevalidate resolves to when it has no cached response:
\* fetchPromise is a promise and so truthy, and it resolves to the response
\* or, after a rejection, to the null its catch handler returns.
SwrNetworkReply(outcome) == IF outcome = "neterr" THEN "null" ELSE outcome

\* The fetch of event f ends with outcome.
NetworkEnds(f, outcome) ==
  /\ fetchEvents[f].pc = "fetching"
  /\ LET e == fetchEvents[f]
     IN fetchEvents' = [fetchEvents EXCEPT ![f] =
          IF e.strategy = "stale-while-revalidate"
          THEN [e EXCEPT !.pc = "done", !.network = outcome,
                         !.wpc = IF outcome = "200" THEN "keys" ELSE "none",
                         !.reply = IF e.cached THEN "cached"
                                   ELSE SwrNetworkReply(outcome)]
          ELSE IF outcome = "200"
          THEN [e EXCEPT !.pc = "writing", !.network = outcome, !.wpc = "keys"]
          ELSE IF outcome = "500"
          THEN [e EXCEPT !.pc = "done", !.network = outcome, !.reply = "500"]
          ELSE [e EXCEPT !.pc = "done", !.network = outcome,
                         !.cached = Match(cache, e.url),
                         !.reply = IF Match(cache, e.url) THEN "cached"
                                   ELSE "offline503"]]
  /\ UNCHANGED <<cache, pendingForms, sync>>
  /\ UNCHANGED <<serverVars, busVars, pageVars>>

\* cacheResponse of event f: cache.keys() is answered.
CacheKeys(f) ==
  /\ fetchEvents[f].wpc = "keys"
  /\ LET e == fetchEvents[f]
     IN fetchEvents' = [fetchEvents EXCEPT ![f] =
          [e EXCEPT !.keys = cache,
                    !.wpc = IF OverLimit(cache, e.maxEntries) THEN "evict"
                            ELSE "put"]]
  /\ UNCHANGED <<cache, pendingForms, sync>>
  /\ UNCHANGED <<serverVars, busVars, pageVars>>

\* cacheResponse of event f: the oldest entries of its key list are deleted.
CacheEvict(f) ==
  /\ fetchEvents[f].wpc = "evict"
  /\ cache' = Without(cache, EntriesToRemove(fetchEvents[f].keys,
                                             fetchEvents[f].maxEntries))
  /\ fetchEvents' = [fetchEvents EXCEPT ![f].wpc = "put"]
  /\ UNCHANGED <<pendingForms, sync>>
  /\ UNCHANGED <<serverVars, busVars, pageVars>>

\* cacheResponse of event f: cache.put stores the response, and the call is
\* complete; network-first, which awaited it, answers with the response.
CachePut(f) ==
  /\ fetchEvents[f].wpc = "put"
  /\ cache' = CachePutEntry(cache, fetchEvents[f].url)
  /\ LET e == fetchEvents[f]
     IN fetchEvents' = [fetchEvents EXCEPT ![f] =
          [e EXCEPT !.wpc = "done",
                    !.sizeAfter = Len(CachePutEntry(cache, e.url)),
                    !.pc = "done",
                    !.reply = IF e.pc = "writing" THEN "200" ELSE e.reply]]
  /\ UNCHANGED <<pendingForms, sync>>
  /\ UNCHANGED <<serverVars, busVars, pageVars>>

\* The forms a page may have left in the object store, by id.
FormQueues == {<<>>, <<1>>, <<1, 2>>}

NoSync == [pc |-> "idle", before |-> <<>>, replayed |-> <<>>, error |-> "none"]

\* A 'sync' event with the tag 'royal-form-sync': syncFormData opens the
\* database and calls db.getAll on it. openDB resolves to the IDBDatabase
\* of indexedDB.open, which has no getAll method, so the call throws a
\* TypeError before the loop over the forms is entered and the promise
\* given to waitUntil is rejected.
SyncFormData ==
  /\ sync' = [pc |-> "rejected", before |-> pendingForms,
              replayed |-> <<>>, error |-> "TypeError"]
  /\ UNCHANGED <<cache, fetchEvents, pendingForms>>
  /\ UNCHANGED <<serverVars, busVars, pageVars>>

\* The installed service worker before any event.
SwInstalled(forms) ==
  /\ cache = Precached
  /\ fetchEvents = [f \in FetchIds |-> NoFetch]
  /\ pendingForms = forms
  /\ sync = NoSync

\* A service worker that gets no events.
SwIdle == SwInstalled(<<>>)

\* The storefront scripts before they run.
OthersIdle == BusIdle /\ PageIdle /\ SwIdle

\* ----------------------------------------------------------- specification
ServerInit ==
  /\ env \in Envs
  /\ proc = "init"
  /\ listening = FALSE
  /\ watching = FALSE
  /\ disk = [f \in Files |-> FileOf(InitialContent)]
  /\ pending = <<>>
  /\ handlers = <<>>
  /\ reqs = [r \in ReqIds |-> NewReq]
  /\ remote = [t \in ThemeIds |-> <<>>]
  /\ changes = 0
  /\ emitted = 0
  /\ burst = NoBurst
  /\ OthersIdle

ServerNext ==
  \/ Startup
  \/ \E f \in Files, c \in FileContents : FileWrite(f, c)
  \/ \E f \in Files : FileRemove(f)
  \/ WindowElapses
  \/ HandleChange
  \/ \E h \in 1..MaxEvents, o \in Outcomes : WatcherCallEnds(h, o)
  \/ \E r \in ReqIds, t \in ThemeIdInputs : PublishSection(r, t)
  \/ \E r \in ReqIds, t \in FramesThemeIdInputs, fr \in FramesInputs :
       UploadFrames(r, t, fr)
  \/ \E r \in ReqIds, o \in Outcomes : RequestCallEnds(r, o)
  \/ \E r \in ReqIds : GetThemes(r)
  \/ \E r \in ReqIds, o \in ThemesOutcomes : ThemesCallEnds(r, o)

ServerSpec == ServerInit /\ [][ServerNext]_vars

\* What the event loop guarantees: the server's own steps are taken once they
\* are due. Nothing makes a pending fetch end: shopifyRequest passes fetch
\* neither a timeout nor an abort signal, so the call ends only when the
\* network answers or fails.
LiveSpec == ServerSpec /\ WF_vars(Startup) /\ WF_vars(HandleChange)

\* The server before it is started, for the runs of the storefront scripts.
ServerIdle ==
  /\ env = [SHOPIFY_STORE |-> Undefined, SHOPIFY_ACCESS_TOKEN |-> Undefined,
            THEME_ID |-> Undefined, WATCH_FILES |-> Undefined]
  /\ proc = "init"
  /\ listening = FALSE
  /\ watching = FALSE
  /\ disk = [f \in Files |-> FileOf(InitialContent)]
  /\ pending = <<>>
  /\ handlers = <<>>
  /\ reqs = [r \in ReqIds |-> NewReq]
  /\ remote = [t \in ThemeIds |-> <<>>]
  /\ changes = 0
  /\ emitted = 0
  /\ burst = NoBurst

\* The scripts of a page using the PubSub.
BusInit == ServerIdle /\ BusIdle /\ PageIdle /\ SwIdle

BusNext ==
  \/ \E e \in BusEvents, cb \in Callbacks : Subscribe(e, cb)
  \/ \E j \in 1..MaxSubs : CallUnsubscribe(j)
  \/ \E e \in BusEvents : Publish(e)
  \/ \E e \in BusEvents : Clear(e)
  \/ ClearAll

BusSpec == BusInit /\ [][BusNext]_vars

\* A page showing one 3D scroll section.
PageInit ==
  /\ ServerIdle
  /\ BusIdle
  /\ SwIdle
  /\ \E fc \in FrameCounts, touch \in BOOLEAN, h \in WrapperHeights,
        top \in WrapperTops, ih \in InnerHeights :
       PageLoaded(fc, touch, [offsetTop |-> top, offsetHeight |-> h],
                  [scrollY |-> 0, innerHeight |-> ih])

PageNext ==
  \/ \E y \in ScrollYs : ScrollTo(y)
  \/ \E h \in InnerHeights : Resize(h)
  \/ AnimationFrame
  \/ \E x \in ClientXs : StartDrag(x)
  \/ \E x \in ClientXs : MoveDrag(x)
  \/ EndDrag

PageSpec == PageInit /\ [][PageNext]_vars

\* The service worker after its installation.
SwInit ==
  /\ ServerIdle
  /\ BusIdle
  /\ PageIdle
  /\ \E forms \in FormQueues : SwInstalled(forms)

SwNext ==
  \/ \E f \in FetchIds, url \in Urls : FetchEvent(f, url)
  \/ \E f \in FetchIds, o \in NetworkOutcomes : NetworkEnds(f, o)
  \/ \E f \in FetchIds : CacheKeys(f)
  \/ \E f \in FetchIds : CacheEvict(f)
  \/ \E f \in FetchIds : CachePut(f)
  \/ SyncFormData

SwSpec == SwInit /\ [][SwNext]_vars

\* ------------------------------------------------------------------ claims
\* The response a request has received (requests answer at most once).
Answered(r) == reqs[r].resp /= <<>>
StatusOf(r) == reqs[r].resp[1].status
BodyOf(r) == reqs[r].resp[1].body

\* The callers of uploadAsset: runs of the watcher's listener and requests.
Owners == ({"watcher"} \X (1..Len(handlers))) \cup ({"request"} \X ReqIds)
CallOf(o) == IF o[1] = "watcher" THEN handlers[o[2]].call ELSE reqs[o[2]].call

\* C1: in /upload-frames the failure of one file never aborts the batch: once
\* an accepted request has been answered, every frame of it has been attempted
\* and has its own outcome.
C1_BatchNeverAborts ==
  \A r \in ReqIds :
    (/\ reqs[r].kind = "frames"
     /\ Answered(r)
     /\ FramesValid(reqs[r].themeId, reqs[r].frames))
    => Len(reqs[r].outcomes) = Len(reqs[r].frames.val)

\* C2: /publish-section with a themeId answers 200 and gives one outcome per
\* bundle file, also when an upload fails: a failed upload does not stop the
\* others.
C2_PublishReportsEveryFile ==
  \A r \in ReqIds :
    (/\ reqs[r].kind = "publish"
     /\ Answered(r)
     /\ reqs[r].themeId /= Undefined
     /\ reqs[r].reads = Len(PublishFiles))
    => /\ StatusOf(r) = 200
       /\ Len(reqs[r].outcomes) = Len(PublishKeys)

\* No request has written the key of file f at the watcher's theme.
OnlyWatcherWrites(f) ==
  \A r \in ReqIds :
    reqs[r].issued = 0 \/ reqs[r].themeId /= env.THEME_ID \/ reqs[r].kind /= "publish"

\* The last run of the listener for file f.
LastRunFor(f, h) ==
  /\ handlers[h].file = f
  /\ \A j \in 1..Len(handlers) : handlers[j].file = f => j <= h

\* C3: last write wins per remote key: when two changes of a watched file were
\* uploading at the same time and both uploads have succeeded, the theme holds
\* the content of the later change.
C3_LastWriteWins ==
  \A h2 \in 1..Len(handlers) : \A h1 \in handlers[h2].inflight :
    (/\ LastRunFor(handlers[h2].file, h2)
     /\ handlers[h1].logged = "updated"
     /\ handlers[h2].logged = "updated"
     /\ \A j \in 1..Len(handlers) : handlers[j].call.st /= "sent"
     /\ OnlyWatcherWrites(handlers[h2].file))
    => /\ Stored(env.THEME_ID, KeyMap(handlers[h2].file))
       /\ remote[env.THEME_ID][KeyMap(handlers[h2].file)] = handlers[h2].call.attachment

\* C4: at most one upload is in flight per (target, remote key) pair.
C4_OneInFlightPerKey ==
  \A a \in Owners, b \in Owners :
    (/\ a /= b
     /\ CallOf(a).st = "sent" /\ CallOf(a).method = "PUT"
     /\ CallOf(b).st = "sent" /\ CallOf(b).method = "PUT")
    => <<CallOf(a).theme, CallOf(a).key>> /= <<CallOf(b).theme, CallOf(b).key>>

FirstSucceeded(r, n) ==
  /\ Len(reqs[r].outcomes) >= n
  /\ \A j \in 1..n : reqs[r].outcomes[j] = "ok"

NoPriorSync(r) ==
  /\ \A o \in ReqIds \ {r} : reqs[o].issued = 0 \/ reqs[o].themeId /= reqs[r].themeId
  /\ \A h \in 1..Len(handlers) : handlers[h].call.theme /= reqs[r].themeId

\* C6: a publish for a target with no prior sync state attempts the upload of
\* every bundle file and answers with a breakdown array of one entry per file.
C6_InitialPublishUploadsAll ==
  \A r \in ReqIds :
    (/\ reqs[r].kind = "publish"
     /\ Answered(r)
     /\ reqs[r].themeId /= Undefined
     /\ reqs[r].reads = Len(PublishFiles)
     /\ NoPriorSync(r))
    => /\ reqs[r].issued = Len(PublishKeys)
       /\ "breakdown" \in DOMAIN BodyOf(r)
       /\ Len(BodyOf(r).breakdown) = Len(PublishKeys)

C8_WatcherFailureNeverCrashes ==
  \A h \in 1..Len(handlers) :
    (handlers[h].pc = "threw" \/ handlers[h].logged = "failed") => proc = "running"

\* C9: /publish-section without a themeId answers 400 with an error body, and
\* its handler reads no file and issues no remote call.
C9_PublishWithoutThemeId ==
  \A r \in ReqIds :
    (reqs[r].kind = "publish" /\ reqs[r].themeId = Undefined)
    => /\ reqs[r].resp = <<[status |-> 400, body |-> [error |-> "themeId is required"]]>>
       /\ reqs[r].reads = 0
       /\ reqs[r].issued = 0
       /\ reqs[r].call = NoCall

\* A publish without a themeId has been answered 400.
C9_Witness ==
  \E r \in ReqIds :
    /\ reqs[r].kind = "publish"
    /\ reqs[r].themeId = Undefined
    /\ Answered(r)
    /\ StatusOf(r) = 400

\* A string is base64: digits of the alphabet, a length that is a multiple of
\* four, padding only in the last two places.
IsBase64(x) ==
  /\ x.type = "string"
  /\ Len(x.val) % 4 = 0
  /\ \A i \in 1..Len(x.val) :
       \/ IsB64Char(x.val[i])
       \/ (x.val[i] = "=" /\ i > Len(x.val) - 2 /\ \A j \in i..Len(x.val) : x.val[j] = "=")

Malformed(themeId, frames) ==
  \/ themeId = Undefined
  \/ ~IsArray(frames)
  \/ \E i \in 1..Len(frames.val) : ~IsBase64(frames.val[i].content)

\* C10: /upload-frames answers 400 to each kind of malformed input (themeId
\* missing, frames missing or no array, a content that is not valid base64)
\* and writes nothing for it.
C10_MalformedFramesRejected ==
  \A r \in ReqIds :
    (/\ reqs[r].kind = "frames"
     /\ Answered(r)
     /\ Malformed(reqs[r].themeId, reqs[r].frames))
    => /\ StatusOf(r) = 400
       /\ reqs[r].issued = 0

\* A /themes request whose upstream call has ended with outcome o and whose
\* handler has answered.
ThemesDone(r, o) ==
  /\ reqs[r].kind = "themes"
  /\ Answered(r)
  /\ reqs[r].outcomes = <<o>>

Tagged(body, tag) ==
  \/ "tag" \in DOMAIN body /\ body.tag = tag
  \/ "error" \in DOMAIN body /\ body.error = tag

C13_FailFast ==
  (env.SHOPIFY_STORE = Undefined \/ env.SHOPIFY_ACCESS_TOKEN = Undefined)
  => /\ proc \in {"init", "exited"}
     /\ ~listening
     /\ ~watching
     /\ pending = <<>>
     /\ handlers = <<>>
     /\ \A r \in ReqIds : reqs[r] = NewReq
     /\ \A t \in ThemeIds : DOMAIN remote[t] = {}

\* The process has ended at startup for a missing access token.
C13_Witness ==
  /\ env.SHOPIFY_STORE /= Undefined
  /\ env.SHOPIFY_ACCESS_TOKEN = Undefined
  /\ proc = "exited"

\* C14: every remote call ends, even if the Admin API never answers, so
\* every request that waits for a remote call is eventually answered (as long
\* as the process runs).
C14_EveryCallEnds ==
  \A r \in ReqIds :
    (reqs[r].call.st = "sent") ~> (Answered(r) \/ proc /= "running")

\* C15: an upload goes from idle to in flight to succeeded or failed, and a
\* failed upload is not sent again: the handler whose upload failed has ended
\* with that failure as its last upload and has no call in flight, every call
\* a handler issued is one it awaited, and the listener runs once per event
\* with at most one upload per run.
C15_NoRetry ==
  /\ \A r \in ReqIds :
       reqs[r].kind \in {"publish", "frames"} =>
         /\ reqs[r].call.st \in {"none", "sent", "ok", "failed"}
         /\ reqs[r].issued =
              Cardinality({i \in 1..Len(reqs[r].outcomes) :
                             reqs[r].outcomes[i] \in Outcomes})
              + (IF reqs[r].call.st = "none" THEN 0 ELSE 1)
         /\ \A i \in 1..Len(reqs[r].outcomes) :
              reqs[r].outcomes[i] = "failed" =>
                /\ i = Len(reqs[r].outcomes)
                /\ reqs[r].pc = "done"
                /\ reqs[r].call = NoCall
  /\ Len(handlers) + Len(pending) <= emitted
  /\ \A h \in 1..Len(handlers) :
       /\ handlers[h].call.st \in {"none", "sent", "ok", "failed"}
       /\ handlers[h].logged = "failed" =>
            handlers[h].pc = "done" /\ handlers[h].call.st = "failed"

\* An upload of a request and an upload of the listener have failed, and
\* both handlers have ended.
C15_Witness ==
  /\ \E r \in ReqIds :
       /\ reqs[r].pc = "done"
       /\ reqs[r].outcomes /= <<>>
       /\ reqs[r].outcomes[Len(reqs[r].outcomes)] = "failed"
  /\ \E h \in 1..Len(handlers) : handlers[h].logged = "failed"

\* C16: a failed upload changes nothing the server has recorded, so the next
\* trigger uploads that file again: a publish that follows a publish to the
\* same theme in which the upload of a file failed has attempted the upload of
\* that file by the time it is answered.
C16_NextTriggerUploadsAgain ==
  \A r \in ReqIds :
    (reqs[r].kind = "publish" /\ Answered(r))
    => \A i \in reqs[r].retry : reqs[r].issued >= i

\* C17: the watcher is active exactly when WATCH_FILES is 'true' and THEME_ID
\* is set. When it is not, no change event is delivered and no listener runs;
\* when it is, every upload of the listener is a PUT to THEME_ID.
C17_WatcherOnlyWhenConfigured ==
  /\ ~(env.WATCH_FILES = "true" /\ env.THEME_ID /= Undefined)
       => ~watching /\ pending = <<>> /\ handlers = <<>> /\ emitted = 0
  /\ (env.WATCH_FILES = "true" /\ env.THEME_ID /= Undefined /\ proc = "running")
       => watching
  /\ \A h \in 1..Len(handlers) :
       handlers[h].call.st /= "none"
       => /\ handlers[h].call.method = "PUT"
          /\ handlers[h].call.theme = env.THEME_ID
          /\ handlers[h].call.theme \in ThemeIds

\* The watcher is configured, an upload of the listener has succeeded, the
\* configured theme holds the asset and no other theme holds any.
C17_Witness ==
  /\ env.WATCH_FILES = "true"
  /\ \E h \in 1..Len(handlers) :
       /\ handlers[h].logged = "updated"
       /\ Stored(env.THEME_ID, handlers[h].call.key)
  /\ \A t \in ThemeIds \ {env.THEME_ID} : DOMAIN remote[t] = {}

\* C18: a handler suspended on a remote call blocks nothing. While a call is
\* pending (and the server runs), another request can be accepted and starts
\* its own remote call, and a request can be handled to its answer.
C18_PendingCallBlocksNothing ==
  \A o \in Owners :
    (CallOf(o).st = "sent" /\ proc = "running" /\ changes + Arrived < MaxEvents)
    => /\ ENABLED (\E r \in ReqIds : GetThemes(r) /\ reqs'[r].call /= NoCall)
       /\ ENABLED (\E r \in ReqIds :
                     PublishSection(r, Undefined) /\ reqs'[r].resp /= <<>>)

\* The upload of the first request, a publish, is still in flight; the
\* second request, which arrived later, has uploaded frames to other keys
\* meanwhile and has been answered 200.
C18_Witness ==
  /\ reqs[1].kind = "publish"
  /\ reqs[1].call.st = "sent"
  /\ reqs[2].kind = "frames"
  /\ reqs[2].issued > 0
  /\ Answered(2)
  /\ StatusOf(2) = 200
  /\ \A k \in DOMAIN remote[reqs[2].themeId] : k /= reqs[1].call.key

\* C19: the server never deletes a remote asset. No step removes a key from
\* a theme, and every remote call a handler holds after a step is a GET (the
\* theme listing) or a PUT (an asset write).
C19_NeverDeletes ==
  [][/\ \A t \in ThemeIds : \A k \in DOMAIN remote[t] : k \in DOMAIN remote'[t]
     /\ \A r \in ReqIds : reqs'[r].call.method \in {"none", "GET", "PUT"}
     /\ \A h \in 1..Len(handlers') : handlers'[h].call.method \in {"none", "PUT"}]_vars

\* A watched file has been removed from the disk, and the theme still holds
\* the asset that was uploaded from it.
C19_Witness ==
  \E f \in Files : \E t \in ThemeIds :
    /\ ~disk[f].exists
    /\ Stored(t, KeyMap(f))

\* C20: the key of a file is a function of the file, no two watched files
\* share a key, and the listener and /publish-section write a file under the
\* same key.
C20_SameKeyEitherWay ==
  /\ \A f, g \in Files : KeyMap(f) = KeyMap(g) => f = g
  /\ \A h \in 1..Len(handlers) : \A i \in 1..Len(PublishFiles) :
       (handlers[h].call.st /= "none" /\ handlers[h].file = PublishFiles[i])
       => handlers[h].call.key = PublishKeys[i]
  /\ \A r \in ReqIds :
       (reqs[r].kind = "publish" /\ reqs[r].call.st /= "none")
       => reqs[r].call.key = KeyMap(PublishFiles[reqs[r].idx])

\* The listener and a publish request each have an upload of the same file
\* in flight, under the same key.
C20_Witness ==
  \E h \in 1..Len(handlers) : \E r \in ReqIds :
    /\ handlers[h].call.st = "sent"
    /\ reqs[r].kind = "publish"
    /\ reqs[r].call.st = "sent"
    /\ PublishFiles[reqs[r].idx] = handlers[h].file
    /\ reqs[r].call.key = handlers[h].call.key

\* The callbacks of an array, in order.
CbsOf(regs) == [i \in 1..Len(regs) |-> regs[i].cb]

\* An array without the entry that the j-th subscribe call pushed.
WithoutReg(regs, j) ==
  LET Keep(x) == x.reg /= j IN SelectSeq(regs, Keep)

\* C23: the unsubscribe function that the j-th subscribe returned removes
\* the entry of that subscribe call and nothing else, whenever it is called:
\* after the call every event has the callbacks it had before, in the same
\* order, minus that entry if it was still there (so a second call, or a
\* call after clear, changes nothing).
C23_UnsubscribeExact ==
  last.op \in {"unsubscribe", "unsubscribe again"}
  => \A e \in BusEvents :
       CbsOf(events[e].regs) = CbsOf(WithoutReg(last.before[e].regs, last.closure))

\* C24: publish invokes every callback that its event had when publish
\* started, once each and in subscription order.
C24_PublishDeliversSnapshot ==
  last.op = "publish" => last.delivered = last.before[last.event].regs

\* The arrays with every throwing callback replaced by one that returns.
Calm(evs) ==
  [e \in BusEvents |->
     [evs[e] EXCEPT !.regs =
        [i \in 1..Len(evs[e].regs) |->
           IF Throws(evs[e].regs[i].cb)
           THEN [evs[e].regs[i] EXCEPT !.cb = "a"]
           ELSE evs[e].regs[i]]]]

RegsOf(regs) == [i \in 1..Len(regs) |-> regs[i].reg]

\* C25: a callback that throws during publish does not stop delivery.
\* publish returns normally, each throw is logged, and publish visits the
\* same entries and leaves the same arrays as it would if the throwing
\* callbacks returned; when no callback unsubscribes during the publish,
\* every callback of the event is invoked and the arrays are unchanged.
C25_ThrowDoesNotStopDelivery ==
  last.op = "publish"
  => /\ last.returned
     /\ last.logged =
          Cardinality({i \in 1..Len(last.delivered) : Throws(last.delivered[i].cb)})
     /\ RegsOf(last.delivered) =
          RegsOf(PublishTo(Calm(last.before), last.event).delivered)
     /\ Calm(events) = PublishTo(Calm(last.before), last.event).evs
     /\ (\A i \in 1..Len(last.before[last.event].regs) :
           ~UnsubscribesItself(last.before[last.event].regs[i].cb))
        => /\ last.delivered = last.before[last.event].regs
           /\ events = last.before

\* A publish in which the first callback threw and two more callbacks were
\* invoked after it.
C25_Witness ==
  /\ last.op = "publish"
  /\ Len(last.delivered) = 3
  /\ Throws(last.delivered[1].cb)
  /\ last.delivered[2].cb = "a"
  /\ last.logged >= 1

\* C22: the uploads of one request are strictly sequential. Whenever a
\* request has issued its idx-th upload, that upload is the idx-th file of
\* the bundle (liquid, css, js) or the idx-th frame of the array, it is the
\* only upload of the request not yet awaited, and every upload before it
\* has been answered 2xx and is stored at the theme.
C22_UploadsSequential ==
  \A r \in ReqIds :
    (reqs[r].kind \in {"publish", "frames"} /\ reqs[r].call.st /= "none")
    => /\ reqs[r].issued = reqs[r].idx
       /\ Len(reqs[r].outcomes) = reqs[r].idx - 1
       /\ reqs[r].call.method = "PUT"
       /\ reqs[r].call.theme = reqs[r].themeId
       /\ reqs[r].kind = "publish" =>
            /\ reqs[r].idx \in 1..3
            /\ reqs[r].call.key =
                 << <<"sections/", "product-3d-scroll.liquid">>,
                    <<"assets/", "product-3d-scroll.css">>,
                    <<"assets/", "product-3d-scroll.js">> >>[reqs[r].idx]
            /\ \A j \in 1..(reqs[r].idx - 1) :
                 /\ reqs[r].outcomes[j] = "ok"
                 /\ Stored(reqs[r].themeId, PublishKeys[j])
       /\ reqs[r].kind = "frames" =>
            /\ reqs[r].idx \in 1..Len(reqs[r].frames.val)
            /\ reqs[r].call.key = <<"assets/", reqs[r].frames.val[reqs[r].idx].name>>
            /\ \A j \in 1..(reqs[r].idx - 1) :
                 /\ reqs[r].outcomes[j] = "ok"
                 /\ Stored(reqs[r].themeId, FrameKey(reqs[r].frames.val[j]))

\* A publish has its third upload, the script, in flight, and a frames
\* request its second.
C22_Witness ==
  \E r, q \in ReqIds :
    /\ reqs[r].kind = "publish"
    /\ reqs[r].idx = 3
    /\ reqs[r].call.st = "sent"
    /\ reqs[q].kind = "frames"
    /\ reqs[q].idx = 2
    /\ reqs[q].call.st = "sent"

\* C21: rafThrottle: however often the throttled handler is called between
\* two animation frames, the browser holds at most one frame callback; it
\* holds one exactly when the handler was called since the last frame, so a
\* call after a frame schedules a new run; each frame ran updateFrame once;
\* and updateFrame has run once per burst of calls.
C21_OneCallbackPerFrame ==
  /\ Len(rafQueue) <= 1
  /\ (throttle.calls > 0) <=> (Len(rafQueue) = 1)
  /\ (raf /= 0) <=> (Len(rafQueue) = 1)
  /\ throttle.frame.ran = (IF throttle.frame.calls > 0 THEN 1 ELSE 0)
  /\ throttle.runs + Len(rafQueue) = throttle.bursts

\* A frame that followed several calls has run, and a later call is pending.
C21_Witness ==
  /\ throttle.frame.calls >= 2
  /\ throttle.frame.ran = 1
  /\ throttle.calls >= 1
  /\ Len(rafQueue) = 1

\* C29: 3D viewer: after any scroll updates and drag moves, currentFrame is
\* an integer in 0..frameCount-1 and the image shown is one of frame1 ..
\* frame<frameCount>.
C29_CurrentFrameInRange ==
  /\ currentFrame \in {Num(i) : i \in 0..(frameCount - 1)}
  /\ img \in {Num(i) : i \in 1..frameCount}

\* C26: service worker: every completed cacheResponse call leaves the cache
\* with at most its maxEntries entries, also when calls interleave.
C26_CacheWithinLimit ==
  \A f \in FetchIds :
    fetchEvents[f].wpc = "done"
    => fetchEvents[f].sizeAfter <= fetchEvents[f].maxEntries

\* C27: service worker, stale-while-revalidate: a cached response is the
\* answer as soon as the event is handled; without one the answer is the
\* network's response; without one and with a failed fetch the answer is
\* the 'Offline' 503 response.
C27_SwrAnswers ==
  \A f \in FetchIds :
    LET e == fetchEvents[f]
    IN e.strategy = "stale-while-revalidate"
       => /\ e.cached => e.reply = "cached"
          /\ (~e.cached /\ e.network \in {"200", "500"}) => e.reply = e.network
          /\ (~e.cached /\ e.network = "neterr") => e.reply = "offline503"

\* C28: service worker form sync: a run of syncFormData replays every form
\* that was queued when it started, a form leaves the queue only after its
\* replay, and a failure stops neither the run nor the replay of the forms
\* after it.
C28_SyncReplaysQueue ==
  sync.pc /= "idle"
  => /\ sync.error = "none"
     /\ \A i \in 1..Len(sync.before) :
          \E j \in 1..Len(sync.replayed) : sync.replayed[j] = sync.before[i]
     /\ \A i \in 1..Len(sync.before) :
          Match(pendingForms, sync.before[i])
          \/ \E j \in 1..Len(sync.replayed) : sync.replayed[j] = sync.before[i]

====
